---- MODULE Spec2Model ----
(***************************************************************************)
(* State-machine model of user_image_classifier/main.py: the image queue,  *)
(* the files on disk, the bounding boxes of the displayed image, the two   *)
(* UndoManager stacks and the PendingDeletions holding area.  Every event  *)
(* handler of ImageClassifierGUI is one action; a handler that raises      *)
(* keeps the assignments it made before the exception (Tk reports the      *)
(* exception and returns to the main loop).  main() before the GUI, the    *)
(* duplicate cleanup (cleanup.py, cleanup_cli.py) and the renamer          *)
(* (renamer.py) are further specifications over the same variables, each   *)
(* with the directory tree it works on.                                    *)
(***************************************************************************)
EXTENDS Integers, Sequences, FiniteSets, TLC

VARIABLES
    fs,                  \* files on disk: path -> content
    really_delete,       \* ImageClassifierGUI.really_delete
    output_dir,          \* ImageClassifierGUI.output_dir (NoDir when None)
    copy,                \* ImageClassifierGUI.copy
    image_paths,         \* ImageClassifierGUI.image_paths
    current_index,       \* ImageClassifierGUI.current_index
    current_path,        \* ImageClassifierGUI.current_path
    bboxes,              \* ImageClassifierGUI.bboxes: list of box objects (ids)
    boxobj,              \* the box dicts: id -> [coords, label]
    selected_bbox_index, \* ImageClassifierGUI.selected_bbox_index
    is_drawing,          \* ImageClassifierGUI.is_drawing
    bbox_stack,          \* bbox_undo_manager.stack
    file_stack,          \* file_undo_manager.stack
    files_to_delete,     \* pending_deletions.files_to_delete
    phase,               \* "running", "quit", "destroyed", "exited"
    calls,               \* what the last handler called, in order
    found,               \* len(image_paths) when main() started the GUI
    evicted,             \* the hard deletes that register_action has finalized
    tree,                \* main(): the directory entries _find_sources scans
    args,                \* main(): the parsed command line
    sources,             \* main(): image_paths, the result of _find_sources
    pc,                  \* main(): "start", "searched", "returned", "gui"
    returned,            \* what cleanup_images returned (NoneIndex before)
    before,              \* the tree when rename_files was called
    cli                  \* cleanup_cli.main(): what it printed, returned, raised

vars == << fs, really_delete, output_dir, copy, image_paths, current_index,
           current_path, bboxes, boxobj, selected_bbox_index, is_drawing,
           bbox_stack, file_stack, files_to_delete, phase, calls, found,
           evicted, tree, args, sources, pc, returned, before, cli >>

\* the variables of main() before the GUI runs
main_vars == << tree, args, sources, pc, returned, before, cli >>

\* the variables of the GUI
gui_vars == << fs, really_delete, output_dir, copy, image_paths, current_index,
               current_path, bboxes, boxobj, selected_bbox_index, is_drawing,
               bbox_stack, file_stack, files_to_delete, phase, calls, found,
               evicted >>

----------------------------------------------------------------------------
(* Bounds of the model *)

\* max_size of both UndoManagers (the code's default is 20)
MaxUndo == 2

\* a box is drawn only while ModelSize is below this
MaxBoxes == 2

----------------------------------------------------------------------------
(* Paths.  A path is its directory and the parts of its file name:         *)
(* pre  = number of "_DELETE__" prefixes, stem, sfx = whether the name     *)
(* carries a "__<count><class>" suffix, ext = the extension.               *)

NoneIndex == -1

\* cleanup_cli.main() has not run: nothing printed, returned or raised
NoCli == [printed |-> << >>, ret |-> NoneIndex, exc |-> ""]

NoPath == [dir |-> "", pre |-> 0, stem |-> "", sfx |-> FALSE, ext |-> ""]

NoDir == ""

TempDir == "tmp"

Img(dir, stem, sfx) ==
    [dir |-> dir, pre |-> 0, stem |-> stem, sfx |-> sfx, ext |-> "jpg"]

\* Path.with_suffix(".json")
with_suffix_json(p) == [p EXCEPT !.ext = "json"]

\* image_path.with_name(f"_DELETE__{image_path.name}")
with_delete_prefix(p) == [p EXCEPT !.pre = @ + 1]

\* Path(temp_dir) / path.name
in_temp_dir(p) == [p EXCEPT !.dir = TempDir]

\* output_dir / re.sub(r"__\d+[a-zA-Z_]+", "", name) + ext
strip_suffix(p) == [p EXCEPT !.sfx = FALSE]

in_output_dir(dir, p) == [strip_suffix(p) EXCEPT !.dir = dir]

----------------------------------------------------------------------------
(* File contents.  of is the path a content was first stored at: it tells  *)
(* the content of one file from that of every other.                       *)

ImageContent(p) == [kind |-> "image", of |-> p, data |-> << >>]

\* data: label -> boxes, in the order json.dump wrote them
JsonContent(p, data) == [kind |-> "json", of |-> p, data |-> data]

\* the box in the label files of the model: the left half of the image
UnitBox == << 0, 0, 1, 1 >>

key_map == [a |-> "class_a", b |-> "class_b"]

Keys == DOMAIN key_map

exists(f, p) == p \in DOMAIN f

\* shutil.move / os.rename of an existing file: the destination is replaced
moved(f, src, dst) ==
    [q \in (DOMAIN f \ {src}) \cup {dst} |-> IF q = dst THEN f[src] ELSE f[q]]

\* shutil.copy2 of an existing file
copied(f, src, dst) ==
    [q \in DOMAIN f \cup {dst} |-> IF q = dst THEN f[src] ELSE f[q]]

\* open(path, "w"); json.dump
written(f, p, content) ==
    [q \in DOMAIN f \cup {p} |-> IF q = p THEN content ELSE f[q]]

\* Path.unlink(missing_ok=True) of every path in ps
unlinked(f, ps) == [q \in DOMAIN f \ ps |-> f[q]]

----------------------------------------------------------------------------
(* The working state of a handler: the variables as one record, plus exc,  *)
(* the exception in flight ("" when none).  A step on a record whose exc   *)
(* is set does nothing: the exception has left the handler.                *)

NoLabel == "None"

EmptyHeap == [i \in {} |-> [coords |-> UnitBox, label |-> NoLabel]]

S == [ fs |-> fs, really_delete |-> really_delete, output_dir |-> output_dir,
       copy |-> copy, image_paths |-> image_paths,
       current_index |-> current_index, current_path |-> current_path,
       bboxes |-> bboxes, boxobj |-> boxobj,
       selected_bbox_index |-> selected_bbox_index, is_drawing |-> is_drawing,
       bbox_stack |-> bbox_stack, file_stack |-> file_stack,
       files_to_delete |-> files_to_delete, phase |-> phase,
       calls |-> << >>, exc |-> "" ]

Log(s, e) == [s EXCEPT !.calls = Append(@, e)]

raise(s, name) == [Log(s, [ev |-> "raise", exc |-> name]) EXCEPT !.exc = name]

\* the box objects some list or action still refers to
Referenced(s) ==
    {s.bboxes[i] : i \in 1..Len(s.bboxes)}
        \cup {s.bbox_stack[i].bbox : i \in 1..Len(s.bbox_stack)}

\* the handler returns: its assignments become the next state
Commit(s) ==
    /\ fs' = s.fs
    /\ really_delete' = s.really_delete
    /\ output_dir' = s.output_dir
    /\ copy' = s.copy
    /\ image_paths' = s.image_paths
    /\ current_index' = s.current_index
    /\ current_path' = s.current_path
    /\ bboxes' = s.bboxes
    /\ boxobj' = [i \in DOMAIN s.boxobj \cap Referenced(s) |-> s.boxobj[i]]
    /\ selected_bbox_index' = s.selected_bbox_index
    /\ is_drawing' = s.is_drawing
    /\ bbox_stack' = s.bbox_stack
    /\ file_stack' = s.file_stack
    /\ files_to_delete' = s.files_to_delete
    /\ phase' = s.phase
    /\ calls' = s.calls
    /\ found' = found
    /\ evicted' = evicted \cup
                      {s.calls[i].action :
                          i \in {j \in 1..Len(s.calls) :
                                    /\ s.calls[j].ev = "finalize"
                                    /\ s.calls[j].action.type = "DeleteFileAction"
                                    /\ s.calls[j].action.is_hard_delete}}
    /\ UNCHANGED main_vars

----------------------------------------------------------------------------
(* The undoable actions *)

AddBoundingBoxAction(bbox) == [type |-> "AddBoundingBoxAction", bbox |-> bbox]

DeleteBoundingBoxAction(bbox, index) ==
    [type |-> "DeleteBoundingBoxAction", bbox |-> bbox, index |-> index]

AddLabelAction(bbox, old_label) ==
    [type |-> "AddLabelAction", bbox |-> bbox, old_label |-> old_label]

SaveFileAction(source_path, dest_path) ==
    [type |-> "SaveFileAction", source_path |-> source_path,
     dest_path |-> dest_path]

SkipFileAction(source_path) ==
    [type |-> "SkipFileAction", source_path |-> source_path]

DeleteFileAction(original_path, renamed_path, original_json_path, renamed_json_path, is_hard_delete) ==
    [type |-> "DeleteFileAction", original_path |-> original_path,
     renamed_path |-> renamed_path, original_json_path |-> original_json_path,
     renamed_json_path |-> renamed_json_path,
     is_hard_delete |-> is_hard_delete]

----------------------------------------------------------------------------
(* Python list operations (lists are 0-based, sequences 1-based) *)

\* list.pop(i), the list that is left
list_without(l, i) == SubSeq(l, 1, i) \o SubSeq(l, i + 2, Len(l))

\* list.insert(i, x) for i >= 0: an index past the end appends
list_insert(l, i, x) ==
    LET k == IF i > Len(l) THEN Len(l) ELSE i
    IN SubSeq(l, 1, k) \o << x >> \o SubSeq(l, k + 1, Len(l))

\* position of the first element equal to x, 0 when there is none
first_index(l, x) ==
    IF \E i \in 1..Len(l) : l[i] = x
    THEN CHOOSE i \in 1..Len(l) : l[i] = x /\ \A j \in 1..(i - 1) : l[j] # x
    ELSE 0

----------------------------------------------------------------------------
(* PendingDeletions *)

PendingDeletions_add(s, path) ==
    IF s.exc # "" THEN s
    ELSE [Log(s, [ev |-> "pending_add", path |-> path])
             EXCEPT !.files_to_delete = @ \cup {path}]

\* unlink every pending path, forget them, then temp_dir.cleanup(), which
\* removes the temporary directory with everything still in it
\* a clear that leaves the temporary directory in place
PendingDeletions_clear_no_cleanup(s) ==
    IF s.exc # "" THEN s
    ELSE [Log(s, [ev |-> "pending_clear", paths |-> s.files_to_delete])
             EXCEPT !.fs = unlinked(s.fs, s.files_to_delete),
                    !.files_to_delete = {}]

PendingDeletions_clear(s) ==
    IF s.exc # "" THEN s
    ELSE LET f1 == unlinked(s.fs, s.files_to_delete)
             inTemp == {q \in DOMAIN f1 : q.dir = TempDir}
         IN [Log(s, [ev |-> "pending_clear", paths |-> s.files_to_delete])
                EXCEPT !.fs = unlinked(f1, inTemp), !.files_to_delete = {}]

----------------------------------------------------------------------------
(* display_image and the metadata it loads *)

\* the smallest id no live box object has
NewId(heap) ==
    CHOOSE i \in 1..(Cardinality(DOMAIN heap) + 1) :
        /\ i \notin DOMAIN heap
        /\ \A j \in 1..(i - 1) : j \in DOMAIN heap

\* a new box dict appended to the box list
append_new_bbox(s, coords, label) ==
    LET id == NewId(s.boxobj)
    IN [s EXCEPT !.boxobj = [i \in DOMAIN s.boxobj \cup {id} |->
                                IF i = id THEN [coords |-> coords, label |-> label]
                                ELSE s.boxobj[i]],
                 !.bboxes = Append(@, id)]

\* the inner loop of _load_json_metadata: the boxes of one label
RECURSIVE load_boxes(_, _, _)
load_boxes(s, label, boxes) ==
    IF boxes = << >> THEN s
    ELSE load_boxes(append_new_bbox(s, Head(boxes), label), label, Tail(boxes))

\* _load_json_metadata: for label, bboxes in data.items()
RECURSIVE load_json_metadata(_, _)
load_json_metadata(s, data) ==
    IF data = << >> THEN s
    ELSE load_json_metadata(load_boxes(s, Head(data)[1], Head(data)[2]), Tail(data))

load_existing_metadata(s) ==
    LET json_path == with_suffix_json(s.current_path)
    IN IF exists(s.fs, json_path)
       THEN load_json_metadata(s, s.fs[json_path].data)
       ELSE s

\* a clear that leaves the stack as it is
UndoManager_clear_keep(s, mgr) ==
    IF s.exc # "" THEN s
    ELSE Log(s, [ev |-> "clear", mgr |-> mgr, dropped |-> 0])

UndoManager_clear(s, mgr) ==
    IF s.exc # "" THEN s
    ELSE IF mgr = "bbox"
         THEN [Log(s, [ev |-> "clear", mgr |-> mgr, dropped |-> Len(s.bbox_stack)])
                  EXCEPT !.bbox_stack = << >>]
         ELSE [Log(s, [ev |-> "clear", mgr |-> mgr, dropped |-> Len(s.file_stack)])
                  EXCEPT !.file_stack = << >>]

display_image(s) ==
    IF s.exc # "" THEN s
    ELSE LET s1 == [Log(UndoManager_clear(s, "bbox"), [ev |-> "display_image"])
                       EXCEPT !.bboxes = << >>, !.boxobj = EmptyHeap,
                              !.selected_bbox_index = NoneIndex]
         IN IF s1.image_paths = << >>
            THEN [s1 EXCEPT !.phase = "quit"]
            ELSE IF s1.current_index >= Len(s1.image_paths)
            THEN raise(s1, "IndexError")
            ELSE LET s2 == [s1 EXCEPT !.current_path =
                                         s1.image_paths[s1.current_index + 1]]
                 IN IF ~exists(s2.fs, s2.current_path)
                    THEN raise(s2, "FileNotFoundError")
                    ELSE load_existing_metadata(s2)

----------------------------------------------------------------------------
(* The undo of each action, and finalize *)

\* shutil.move(src, dst)
shutil_move(s, src, dst) ==
    IF s.exc # "" THEN s
    ELSE IF ~exists(s.fs, src) THEN raise(s, "FileNotFoundError")
    ELSE [s EXCEPT !.fs = moved(@, src, dst)]

image_paths_insert(s, path) ==
    IF s.exc # "" THEN s
    ELSE [s EXCEPT !.image_paths = list_insert(@, s.current_index, path)]

\* gui.bboxes.remove(self.bbox): the first box that equals the dict, which
\* is the first box with the same coordinates and label
AddBoundingBoxAction_undo(s, a) ==
    LET dicts == [i \in 1..Len(s.bboxes) |-> s.boxobj[s.bboxes[i]]]
        i == first_index(dicts, s.boxobj[a.bbox])
    IN IF i = 0 THEN raise(s, "ValueError")
       ELSE [s EXCEPT !.bboxes = list_without(@, i - 1)]

DeleteBoundingBoxAction_undo(s, a) ==
    [s EXCEPT !.bboxes = list_insert(@, a.index, a.bbox)]

AddLabelAction_undo(s, a) ==
    [s EXCEPT !.boxobj[a.bbox].label = a.old_label]

SaveFileAction_undo(s, a) ==
    display_image(image_paths_insert(shutil_move(s, a.dest_path, a.source_path),
                                     a.source_path))

SkipFileAction_undo(s, a) ==
    display_image(image_paths_insert(s, a.source_path))

DeleteFileAction_undo(s, a) ==
    LET s1 == shutil_move(s, a.renamed_path, a.original_path)
        s2 == IF a.renamed_json_path # NoPath /\ a.original_json_path # NoPath
              THEN shutil_move(s1, a.renamed_json_path, a.original_json_path)
              ELSE s1
    IN display_image(image_paths_insert(s2, a.original_path))

\* a finalize that schedules the files of a soft delete too
DeleteFileAction_finalize_always(s, a) ==
    LET s1 == PendingDeletions_add(s, a.renamed_path)
    IN IF a.renamed_json_path # NoPath
       THEN PendingDeletions_add(s1, a.renamed_json_path)
       ELSE s1

DeleteFileAction_finalize(s, a) ==
    IF a.is_hard_delete
    THEN LET s1 == PendingDeletions_add(s, a.renamed_path)
         IN IF a.renamed_json_path # NoPath
            THEN PendingDeletions_add(s1, a.renamed_json_path)
            ELSE s1
    ELSE s

\* action.undo(gui), dispatched on the action's class
action_undo(s, a) ==
    CASE a.type = "AddBoundingBoxAction" -> AddBoundingBoxAction_undo(s, a)
      [] a.type = "DeleteBoundingBoxAction" -> DeleteBoundingBoxAction_undo(s, a)
      [] a.type = "AddLabelAction" -> AddLabelAction_undo(s, a)
      [] a.type = "SaveFileAction" -> SaveFileAction_undo(s, a)
      [] a.type = "SkipFileAction" -> SkipFileAction_undo(s, a)
      [] a.type = "DeleteFileAction" -> DeleteFileAction_undo(s, a)

\* action.finalize(gui): only DeleteFileAction overrides the default no-op
action_finalize(s, a) ==
    LET s1 == Log(s, [ev |-> "finalize", action |-> a])
    IN IF a.type = "DeleteFileAction" THEN DeleteFileAction_finalize(s1, a)
       ELSE s1

----------------------------------------------------------------------------
(* UndoManager *)

Stack(s, mgr) == IF mgr = "bbox" THEN s.bbox_stack ELSE s.file_stack

WithStack(s, mgr, stack) ==
    IF mgr = "bbox" THEN [s EXCEPT !.bbox_stack = stack]
    ELSE [s EXCEPT !.file_stack = stack]

\* a deque that ignores maxlen
deque_append_unbounded(stack, x) == Append(stack, x)

\* deque(maxlen=max_size).append: a full deque drops its leftmost element
deque_append(stack, x) ==
    IF Len(stack) = MaxUndo THEN Append(Tail(stack), x) ELSE Append(stack, x)

UndoManager_register_action(s, mgr, action) ==
    IF s.exc # "" THEN s
    ELSE LET stack == Stack(s, mgr)
             s1 == IF Len(stack) = MaxUndo THEN action_finalize(s, stack[1])
                   ELSE s
         IN Log(WithStack(s1, mgr, deque_append(stack, action)),
                [ev |-> "register", mgr |-> mgr, action |-> action])

\* an undo that takes the oldest action instead of the newest
UndoManager_undo_oldest(s, mgr) ==
    IF s.exc # "" THEN s
    ELSE LET stack == Stack(s, mgr)
         IN IF stack = << >> THEN Log(s, [ev |-> "nothing_to_undo", mgr |-> mgr])
            ELSE LET action == stack[1]
                     s1 == WithStack(s, mgr, Tail(stack))
                 IN action_undo(Log(s1, [ev |-> "undo", mgr |-> mgr,
                                         action |-> action]), action)

\* an undo that pops without looking whether the stack is empty
UndoManager_undo_unguarded(s, mgr) ==
    IF s.exc # "" THEN s
    ELSE LET stack == Stack(s, mgr)
         IN IF stack = << >> THEN raise(s, "IndexError")
            ELSE LET action == stack[Len(stack)]
                     s1 == WithStack(s, mgr, SubSeq(stack, 1, Len(stack) - 1))
                 IN action_undo(Log(s1, [ev |-> "undo", mgr |-> mgr,
                                         action |-> action]), action)

UndoManager_undo(s, mgr) ==
    IF s.exc # "" THEN s
    ELSE LET stack == Stack(s, mgr)
         IN IF stack = << >> THEN Log(s, [ev |-> "nothing_to_undo", mgr |-> mgr])
            ELSE LET action == stack[Len(stack)]
                     s1 == WithStack(s, mgr, SubSeq(stack, 1, Len(stack) - 1))
                 IN action_undo(Log(s1, [ev |-> "undo", mgr |-> mgr,
                                         action |-> action]), action)

UndoManager_is_empty(s, mgr) == Stack(s, mgr) = << >>

----------------------------------------------------------------------------
(* The methods of ImageClassifierGUI *)

\* an output_data that puts each box first in the list of its label and
\* keeps the unlabeled boxes
RECURSIVE output_data_prepend(_, _, _)
output_data_prepend(heap, boxes, acc) ==
    IF boxes = << >> THEN acc
    ELSE LET b == heap[Head(boxes)]
             k == IF \E i \in 1..Len(acc) : acc[i][1] = b.label
                  THEN CHOOSE i \in 1..Len(acc) : acc[i][1] = b.label
                  ELSE 0
             acc1 == IF k = 0 THEN Append(acc, << b.label, << b.coords >> >>)
                     ELSE [acc EXCEPT ![k][2] = << b.coords >> \o @]
         IN output_data_prepend(heap, Tail(boxes), acc1)

\* _save_json_format: output_data[label].append(coords) for each labeled box
RECURSIVE output_data(_, _, _)
output_data(heap, boxes, acc) ==
    IF boxes = << >> THEN acc
    ELSE LET b == heap[Head(boxes)]
             k == IF \E i \in 1..Len(acc) : acc[i][1] = b.label
                  THEN CHOOSE i \in 1..Len(acc) : acc[i][1] = b.label
                  ELSE 0
             acc1 == IF b.label = NoLabel THEN acc
                     ELSE IF k = 0 THEN Append(acc, << b.label, << b.coords >> >>)
                     ELSE [acc EXCEPT ![k][2] = Append(@, b.coords)]
         IN output_data(heap, Tail(boxes), acc1)

\* _save_json_format(filename, output_dir): writes <stem>.json of image path p
save_json_format(s, p) ==
    IF s.exc # "" THEN s
    ELSE [Log(s, [ev |-> "save_json", path |-> with_suffix_json(p)])
             EXCEPT !.fs = written(@, with_suffix_json(p),
                                   JsonContent(with_suffix_json(p),
                                               output_data(s.boxobj, s.bboxes, << >>)))]

update_after_removal(s) ==
    IF s.exc # "" THEN s
    ELSE display_image(
             IF s.image_paths # << >> /\ s.current_index >= Len(s.image_paths)
             THEN [s EXCEPT !.current_index = Len(s.image_paths) - 1]
             ELSE s)

\* self.image_paths.pop(self.current_index): the list that is left
image_paths_pop(s) ==
    IF s.current_index >= Len(s.image_paths) THEN raise(s, "IndexError")
    ELSE [s EXCEPT !.image_paths = list_without(@, s.current_index)]

\* shutil.copy2(source_path, dest_path)
shutil_copy(s, src, dst) ==
    IF s.exc # "" THEN s
    ELSE IF ~exists(s.fs, src) THEN raise(s, "FileNotFoundError")
    ELSE [s EXCEPT !.fs = copied(@, src, dst)]

save_and_next(s) ==
    LET source_path == s.image_paths[s.current_index + 1]
        s1 == image_paths_pop(s)
        dest_path == in_output_dir(s.output_dir, source_path)
        s2 == IF s.output_dir # NoDir
              THEN save_json_format(
                       UndoManager_register_action(
                           IF s.copy THEN shutil_copy(s1, source_path, dest_path)
                           ELSE shutil_move(s1, source_path, dest_path),
                           "file", SaveFileAction(source_path, dest_path)),
                       dest_path)
              ELSE save_json_format(s1, source_path)
    IN IF s1.exc # "" THEN s1 ELSE update_after_removal(s2)

skip_and_next(s) ==
    LET source_path == s.image_paths[s.current_index + 1]
        s1 == image_paths_pop(s)
    IN IF s1.exc # "" THEN s1
       ELSE update_after_removal(
                UndoManager_register_action(s1, "file", SkipFileAction(source_path)))

handle_delete_key(s) ==
    IF s.image_paths = << >> THEN s
    ELSE LET image_path == s.image_paths[s.current_index + 1]
             s1 == image_paths_pop(s)
             json_path == with_suffix_json(image_path)
             json_exists == exists(s.fs, json_path)
             new_image_path == IF s.really_delete THEN in_temp_dir(image_path)
                               ELSE with_delete_prefix(image_path)
             new_json_path == IF s.really_delete THEN in_temp_dir(json_path)
                              ELSE with_delete_prefix(json_path)
             s2 == shutil_move(s1, image_path, new_image_path)
             s3 == IF json_exists THEN shutil_move(s2, json_path, new_json_path)
                   ELSE s2
             action == DeleteFileAction(image_path, new_image_path,
                                        IF json_exists THEN json_path ELSE NoPath,
                                        IF json_exists THEN new_json_path ELSE NoPath,
                                        s.really_delete)
         IN IF s1.exc # "" THEN s1
            ELSE update_after_removal(
                     UndoManager_register_action(s3, "file", action))

\* a navigate that stops at the ends of the queue
navigate_clamped(s, delta) ==
    IF s.image_paths = << >> THEN s
    ELSE display_image(
             [Log(s, [ev |-> "navigate", from |-> s.current_index, delta |-> delta])
                 EXCEPT !.current_index =
                           IF s.current_index + delta < 0 THEN 0
                           ELSE IF s.current_index + delta >= Len(s.image_paths)
                           THEN Len(s.image_paths) - 1
                           ELSE s.current_index + delta])

navigate(s, delta) ==
    IF s.image_paths = << >> THEN s
    ELSE display_image(
             [Log(s, [ev |-> "navigate", from |-> s.current_index, delta |-> delta])
                 EXCEPT !.current_index =
                           (s.current_index + delta) % Len(s.image_paths)])

cycle_bbox_selection(s, delta) ==
    IF s.bboxes = << >> THEN s
    ELSE IF s.selected_bbox_index = NoneIndex
    THEN [s EXCEPT !.selected_bbox_index =
                      IF delta > 0 THEN 0 ELSE Len(s.bboxes) - 1]
    ELSE [s EXCEPT !.selected_bbox_index = (@ + delta) % Len(s.bboxes)]

\* position (1-based) of the last box whose label is None, 0 when there is none
last_unlabeled(s) ==
    IF \E i \in 1..Len(s.bboxes) : s.boxobj[s.bboxes[i]].label = NoLabel
    THEN CHOOSE i \in 1..Len(s.bboxes) :
             /\ s.boxobj[s.bboxes[i]].label = NoLabel
             /\ \A j \in (i + 1)..Len(s.bboxes) : s.boxobj[s.bboxes[j]].label # NoLabel
    ELSE 0

\* the tail of add_label: relabel box object id and register the action
label_bbox(s, id, key) ==
    UndoManager_register_action(
        [s EXCEPT !.boxobj[id].label = key_map[key]],
        "bbox", AddLabelAction(id, s.boxobj[id].label))

add_label(s, key) ==
    IF s.bboxes = << >> THEN s
    ELSE IF s.selected_bbox_index # NoneIndex
    THEN IF s.selected_bbox_index >= Len(s.bboxes) THEN raise(s, "IndexError")
         ELSE label_bbox([s EXCEPT !.selected_bbox_index = NoneIndex],
                         s.bboxes[s.selected_bbox_index + 1], key)
    ELSE IF last_unlabeled(s) = 0 THEN s
    ELSE label_bbox(s, s.bboxes[last_unlabeled(s)], key)

\* delete_selected_bbox, when a box is selected (it then returns True)
delete_selected_bbox(s) ==
    IF s.selected_bbox_index >= Len(s.bboxes) THEN raise(s, "IndexError")
    ELSE LET bbox_to_delete == s.bboxes[s.selected_bbox_index + 1]
             s1 == UndoManager_register_action(
                       s, "bbox",
                       DeleteBoundingBoxAction(bbox_to_delete, s.selected_bbox_index))
         IN [s1 EXCEPT !.bboxes = list_without(@, s.selected_bbox_index),
                       !.selected_bbox_index = NoneIndex]

\* a right click that undoes on the file stack
handle_right_click_file(s) ==
    IF s.is_drawing THEN s
    ELSE IF s.selected_bbox_index # NoneIndex THEN delete_selected_bbox(s)
    ELSE UndoManager_undo(s, "file")

\* a right click that does not look at is_drawing
handle_right_click_while_drawing(s) ==
    IF s.selected_bbox_index # NoneIndex THEN delete_selected_bbox(s)
    ELSE UndoManager_undo(s, "bbox")

handle_right_click(s) ==
    IF s.is_drawing THEN s
    ELSE IF s.selected_bbox_index # NoneIndex THEN delete_selected_bbox(s)
    ELSE UndoManager_undo(s, "bbox")

\* a Backspace that undoes a file action first
handle_backspace_file_first(s) ==
    IF s.is_drawing THEN s
    ELSE IF ~UndoManager_is_empty(s, "file") THEN UndoManager_undo(s, "file")
    ELSE UndoManager_undo(s, "bbox")

handle_backspace(s) ==
    IF s.is_drawing THEN s
    ELSE IF ~UndoManager_is_empty(s, "bbox") THEN UndoManager_undo(s, "bbox")
    ELSE UndoManager_undo(s, "file")

\* a button press that undoes whatever the label of the last box
on_button_press_always_undo(s) ==
    LET s1 == IF s.bboxes # << >> THEN UndoManager_undo(s, "bbox") ELSE s
    IN IF s1.exc # "" THEN s1 ELSE [s1 EXCEPT !.is_drawing = TRUE]

on_button_press(s) ==
    LET s1 == IF s.bboxes # << >>
                 /\ s.boxobj[s.bboxes[Len(s.bboxes)]].label = NoLabel
              THEN UndoManager_undo(s, "bbox")
              ELSE s
    IN IF s1.exc # "" THEN s1 ELSE [s1 EXCEPT !.is_drawing = TRUE]

image_width == 2

image_height == 1

Min(a, b) == IF a < b THEN a ELSE b

Max(a, b) == IF a > b THEN a ELSE b

\* max(0, min(v, dim))
Clamp(v, dim) == Max(0, Min(v, dim))

\* the box on_button_release builds from the press and release positions
\* (zoom_level 1, image at the canvas origin)
drawn_bbox(sx, sy, ex, ey) ==
    << Min(Clamp(sx, image_width), Clamp(ex, image_width)),
       Min(Clamp(sy, image_height), Clamp(ey, image_height)),
       Max(Clamp(sx, image_width), Clamp(ex, image_width)),
       Max(Clamp(sy, image_height), Clamp(ey, image_height)) >>

zero_sized(c) == c[1] = c[3] \/ c[2] = c[4]

on_button_release(s, sx, sy, ex, ey) ==
    LET s1 == [s EXCEPT !.is_drawing = FALSE]
        c == drawn_bbox(sx, sy, ex, ey)
    IN IF zero_sized(c) THEN s1
       ELSE LET s2 == append_new_bbox(s1, c, NoLabel)
            IN UndoManager_register_action(
                   s2, "bbox", AddBoundingBoxAction(s2.bboxes[Len(s2.bboxes)]))

\* an on_closing that destroys the window and clears nothing
on_closing_without_clear(s) == [s EXCEPT !.phase = "destroyed"]

on_closing(s) == [PendingDeletions_clear(s) EXCEPT !.phase = "destroyed"]

\* PendingDeletions.__del__ when the process ends
PendingDeletions_del(s) == [PendingDeletions_clear(s) EXCEPT !.phase = "exited"]

----------------------------------------------------------------------------
(* The state after ImageClassifierGUI.__init__.  A session is what main()  *)
(* passes to the GUI (the images _find_sources returned, in sorted order,  *)
(* and the flags) and what lies on disk: in the default mode no image has  *)
(* a label file, under --edit and --fixup every image has one.            *)

\* a/_DELETE__x.jpg < a/x.jpg < a/x__1c.jpg < b/x.jpg < b/y.jpg
ImageLists ==
    { << Img("a", "x", FALSE) >>,
      << Img("a", "x", FALSE), Img("b", "x", FALSE) >>,
      << with_delete_prefix(Img("a", "x", FALSE)), Img("a", "x", FALSE) >>,
      << Img("a", "x", FALSE), Img("a", "x", TRUE), Img("b", "x", FALSE) >>,
      << Img("a", "x", FALSE), Img("a", "x", TRUE), Img("b", "x", FALSE),
         Img("b", "y", FALSE) >> }

\* label files: one written by "Saved empty", one with a labeled box
SidecarContents == { << >>, << << "class_a", << UnitBox >> >> >> }

Range(l) == {l[i] : i \in 1..Len(l)}

\* the sessions the model starts from: full queues with every mode and flag,
\* short queues (where boxes are drawn, see ButtonRelease) with fewer
Sessions ==
    { ses \in [images : ImageLists, rd : BOOLEAN, od : {NoDir, "out"},
               cp : BOOLEAN, labeled : BOOLEAN, sidecar : SidecarContents] :
        /\ ses.od # NoDir => ses.labeled      \* --fixup implies edit
        /\ ses.cp => ses.od # NoDir           \* copy is read in fixup mode only
        /\ ~ses.labeled => ses.sidecar = << >>
        /\ Len(ses.images) = 3 => ses.sidecar = << >>
        /\ Len(ses.images) = 4 => ses.rd /\ ses.od = NoDir /\ ~ses.labeled
        /\ Len(ses.images) = 2 => ses.od = NoDir /\ ~ses.labeled
        /\ ses.images[1].pre > 0 => ~ses.rd
        /\ Len(ses.images) = 1 =>
              ses.od = NoDir /\ ~ses.rd /\ (ses.labeled => ses.sidecar # << >>) }

\* the files on disk
InitialFiles(ses) ==
    [q \in Range(ses.images)
             \cup {with_suffix_json(p) : p \in IF ses.labeled THEN Range(ses.images) ELSE {}} |->
        IF q.ext = "jpg" THEN ImageContent(q) ELSE JsonContent(q, ses.sidecar)]

Constructed(ses) ==
    display_image(
        [ fs |-> InitialFiles(ses), really_delete |-> ses.rd,
          output_dir |-> ses.od, copy |-> ses.cp, image_paths |-> ses.images,
          current_index |-> 0, current_path |-> NoPath, bboxes |-> << >>,
          boxobj |-> EmptyHeap, selected_bbox_index |-> NoneIndex,
          is_drawing |-> FALSE, bbox_stack |-> << >>, file_stack |-> << >>,
          files_to_delete |-> {}, phase |-> "running", calls |-> << >>,
          exc |-> "" ])

Init ==
    \E ses \in Sessions :
        LET s == Constructed(ses)
        IN /\ fs = s.fs
           /\ really_delete = s.really_delete
           /\ output_dir = s.output_dir
           /\ copy = s.copy
           /\ image_paths = s.image_paths
           /\ current_index = s.current_index
           /\ current_path = s.current_path
           /\ bboxes = s.bboxes
           /\ boxobj = s.boxobj
           /\ selected_bbox_index = s.selected_bbox_index
           /\ is_drawing = s.is_drawing
           /\ bbox_stack = s.bbox_stack
           /\ file_stack = s.file_stack
           /\ files_to_delete = s.files_to_delete
           /\ phase = s.phase
           /\ calls = s.calls
           /\ found = Len(ses.images)
           /\ evicted = {}
           /\ tree = {}
           /\ args = [dirs |-> << >>, edit |-> ses.labeled, process_all |-> FALSE]
           /\ sources = Range(ses.images)
           /\ pc = "gui"
           /\ returned = NoneIndex
           /\ before = {}
           /\ cli = NoCli

----------------------------------------------------------------------------
(* The events.  Tk delivers them one at a time while the main loop runs;   *)
(* a button release follows a button press.                                *)

\* 0 is the left edge of the image, 3 lies right of it (image_width is 2):
\* the mouse of the model draws one box, the whole image
MouseX == {0, 3}

\* what the model bounds: the boxes in the list and the images of the
\* session besides the displayed one
ModelSize == Len(bboxes) + found - 1

MouseY == {0, 1}

Escape == phase = "running" /\ Commit(on_closing(S))

RightClick == phase = "running" /\ Commit(handle_right_click(S))

Backspace == phase = "running" /\ Commit(handle_backspace(S))

DeleteKey == phase = "running" /\ Commit(handle_delete_key(S))

Space == phase = "running" /\ Commit(save_and_next(S))

Grave == phase = "running" /\ Commit(skip_and_next(S))

Arrow == phase = "running" /\ \E delta \in {-1, 1} : Commit(navigate(S, delta))

F5F6 == phase = "running" /\ \E delta \in {-1, 1} : Commit(cycle_bbox_selection(S, delta))

LabelKey == phase = "running" /\ \E key \in Keys : Commit(add_label(S, key))

ButtonPress == phase = "running" /\ ~is_drawing /\ Commit(on_button_press(S))

ButtonRelease ==
    /\ phase = "running"
    /\ is_drawing
    /\ \E sx \in MouseX, sy \in MouseY, ex \in MouseX, ey \in MouseY :
          /\ zero_sized(drawn_bbox(sx, sy, ex, ey)) \/ ModelSize < MaxBoxes
          /\ Commit(on_button_release(S, sx, sy, ex, ey))

ProcessExit == phase \in {"quit", "destroyed"} /\ Commit(PendingDeletions_del(S))

Next ==
    \/ Escape
    \/ RightClick
    \/ Backspace
    \/ DeleteKey
    \/ Space
    \/ Grave
    \/ Arrow
    \/ F5F6
    \/ LabelKey
    \/ ButtonPress
    \/ ButtonRelease
    \/ ProcessExit

Spec == Init /\ [][Next]_vars

----------------------------------------------------------------------------
(* What the last handler called *)

Managers == {"bbox", "file"}

StackOf(mgr) == IF mgr = "bbox" THEN bbox_stack ELSE file_stack

\* the positions in log of the events named ev
Events(log, ev) == {i \in 1..Len(log) : log[i].ev = ev}

\* the positions in log of the events named ev of manager mgr
EventsOf(log, ev, mgr) == {i \in Events(log, ev) : log[i].mgr = mgr}

Front(l) == SubSeq(l, 1, Len(l) - 1)

Last(l) == l[Len(l)]

----------------------------------------------------------------------------
(* C1: an undo stack never holds more than max_size actions, and a step    *)
(* that registers an action appends it at the newest end; on a full stack  *)
(* exactly the oldest action goes, so the stack is then the max_size most  *)
(* recently registered actions still kept, in registration order.          *)

C1_Register(mgr) ==
    \A i \in EventsOf(calls', "register", mgr) :
        StackOf(mgr)' = IF Len(StackOf(mgr)) = MaxUndo
                        THEN Append(Tail(StackOf(mgr)), calls'[i].action)
                        ELSE Append(StackOf(mgr), calls'[i].action)

C1_BoundedStack ==
    [][\A mgr \in Managers :
          /\ Len(StackOf(mgr)) <= MaxUndo
          /\ Len(StackOf(mgr)') <= MaxUndo
          /\ C1_Register(mgr)]_vars

\* an action has just been registered on the full file stack
C1_Witness ==
    /\ EventsOf(calls, "register", "file") # {}
    /\ Events(calls, "finalize") # {}
    /\ Len(file_stack) = MaxUndo

----------------------------------------------------------------------------
(* C2: an undo on a non-empty stack pops the newest action of that stack   *)
(* and calls the undo of that action, once; it calls the undo of no other  *)
(* action, and it finds nothing to undo only on an empty stack.            *)

C2_Undo(mgr) ==
    /\ EventsOf(calls', "undo", mgr) # {} =>
          /\ Cardinality(Events(calls', "undo")) = 1
          /\ StackOf(mgr) # << >>
          /\ \A i \in EventsOf(calls', "undo", mgr) :
                calls'[i].action = Last(StackOf(mgr))
          /\ StackOf(mgr)' = Front(StackOf(mgr))
    /\ EventsOf(calls', "nothing_to_undo", mgr) # {} =>
          /\ StackOf(mgr) = << >>
          /\ Events(calls', "undo") = {}

C2_UndoIsLifo == [][\A mgr \in Managers : C2_Undo(mgr)]_vars

\* the newer of two file actions has just been undone
C2_Witness ==
    /\ EventsOf(calls, "undo", "file") # {}
    /\ Len(file_stack) = 1
    /\ phase = "running"

----------------------------------------------------------------------------
(* Helpers of the claims about file actions *)

IsDelete(a) == a.type = "DeleteFileAction"

IsHardDelete(a) == IsDelete(a) /\ a.is_hard_delete

IsSoftDelete(a) == IsDelete(a) /\ ~a.is_hard_delete

Raised(log) == Events(log, "raise") # {}

\* the image the handlers act on, and its label file
CurrentImage == image_paths[current_index + 1]

CurrentJson == with_suffix_json(CurrentImage)

\* the contents on disk
Contents(f) == {f[q] : q \in DOMAIN f}

----------------------------------------------------------------------------
(* C3: in every state, also after the window is closed, the image of each  *)
(* hard delete still on the file undo stack lies in the temporary holding  *)
(* area with its own content, and so does its label file if it had one:    *)
(* nothing is removed for good before its action leaves the stack.         *)

C3_Held(a) ==
    /\ exists(fs, a.renamed_path)
    /\ fs[a.renamed_path] = ImageContent(a.original_path)
    /\ a.renamed_json_path # NoPath =>
          /\ exists(fs, a.renamed_json_path)
          /\ fs[a.renamed_json_path].of = a.original_json_path

C3_HeldWhileOnStack ==
    \A i \in 1..Len(file_stack) :
        IsHardDelete(file_stack[i]) => C3_Held(file_stack[i])

----------------------------------------------------------------------------
(* C4: every handler run that changes what the user sees registers         *)
(* exactly one action: a completed box of non-zero size, the deletion of   *)
(* the selected box, a label set on a box, save-and-advance, skip, and the *)
(* Delete key on a non-empty queue.                                        *)

C4_BoxCompleted == ButtonRelease /\ Len(bboxes') = Len(bboxes) + 1

C4_BoxDeleted == RightClick /\ ~is_drawing /\ selected_bbox_index # NoneIndex

C4_Labeled ==
    /\ LabelKey
    /\ bboxes # << >>
    /\ selected_bbox_index # NoneIndex \/ last_unlabeled(S) # 0

C4_Mutation ==
    \/ C4_BoxCompleted
    \/ C4_BoxDeleted
    \/ C4_Labeled
    \/ Space
    \/ Grave
    \/ DeleteKey /\ image_paths # << >>

C4_OneRecordPerMutation ==
    [][C4_Mutation /\ ~Raised(calls') =>
          Cardinality(Events(calls', "register")) = 1]_vars

----------------------------------------------------------------------------
(* C5: the Delete key without really_delete renames the image, and its     *)
(* label file if it has one, to the same name with one more _DELETE__      *)
(* prefix in the same directory, takes the image off the queue, registers  *)
(* one soft DeleteFileAction on the file stack, and removes no file: every *)
(* content on disk before is on disk after.                                *)

C5_Prefixed(p) ==
    [dir |-> p.dir, pre |-> p.pre + 1, stem |-> p.stem, sfx |-> p.sfx,
     ext |-> p.ext]

C5_Action ==
    DeleteFileAction(CurrentImage, C5_Prefixed(CurrentImage),
                     IF exists(fs, CurrentJson) THEN CurrentJson ELSE NoPath,
                     IF exists(fs, CurrentJson) THEN C5_Prefixed(CurrentJson)
                     ELSE NoPath,
                     FALSE)

C5_Renamed ==
    /\ ~exists(fs', CurrentImage)
    /\ ~exists(fs', CurrentJson)
    /\ fs'[C5_Prefixed(CurrentImage)] = fs[CurrentImage]
    /\ exists(fs, CurrentJson) => fs'[C5_Prefixed(CurrentJson)] = fs[CurrentJson]
    /\ image_paths' = list_without(image_paths, current_index)
    /\ \A i \in Events(calls', "register") :
          calls'[i].mgr = "file" /\ calls'[i].action = C5_Action
    /\ Cardinality(Events(calls', "register")) = 1
    /\ Last(file_stack') = C5_Action

C5_SoftDeleteRemovesNothing ==
    [][/\ DeleteKey
       /\ ~really_delete
       /\ current_index < Len(image_paths)
       /\ exists(fs, CurrentImage)
       => C5_Renamed /\ Contents(fs) \subseteq Contents(fs')]_vars

----------------------------------------------------------------------------
(* C6: a step that undoes a DeleteFileAction moves the renamed image back  *)
(* to its original path, and the renamed label file too if there is one;   *)
(* after it neither renamed path exists, the original path is in the queue *)
(* at current_index and is the displayed image, and display_image was      *)
(* called once.                                                            *)

C6_Undone(a) ==
    /\ ~Raised(calls')
    /\ exists(fs, a.renamed_path)
    /\ exists(fs', a.original_path)
    /\ fs'[a.original_path] = fs[a.renamed_path]
    /\ ~exists(fs', a.renamed_path)
    /\ a.renamed_json_path # NoPath =>
          /\ exists(fs, a.renamed_json_path)
          /\ exists(fs', a.original_json_path)
          /\ fs'[a.original_json_path] = fs[a.renamed_json_path]
          /\ ~exists(fs', a.renamed_json_path)
    /\ image_paths' = list_insert(image_paths, current_index, a.original_path)
    /\ current_index' = current_index
    /\ current_path' = a.original_path
    /\ Cardinality(Events(calls', "display_image")) = 1

C6_DeleteUndone ==
    [][\A i \in Events(calls', "undo") :
          IsDelete(calls'[i].action) => C6_Undone(calls'[i].action)]_vars

----------------------------------------------------------------------------
(* C7: a step that undoes a SaveFileAction moves the image from the        *)
(* destination back to the source (after it the source exists and the      *)
(* destination does not), puts the source path in the queue at             *)
(* current_index, and calls display_image once.                            *)

C7_Undone(a) ==
    /\ ~Raised(calls')
    /\ exists(fs, a.dest_path)
    /\ exists(fs', a.source_path)
    /\ fs'[a.source_path] = fs[a.dest_path]
    /\ ~exists(fs', a.dest_path)
    /\ image_paths' = list_insert(image_paths, current_index, a.source_path)
    /\ Cardinality(Events(calls', "display_image")) = 1

C7_SaveUndone ==
    [][\A i \in Events(calls', "undo") :
          calls'[i].action.type = "SaveFileAction" => C7_Undone(calls'[i].action)]_vars

----------------------------------------------------------------------------
(* C8: while the program runs, a hard delete stages the image and its      *)
(* label file in the temporary holding area, where they stay as long as    *)
(* the action can be undone, and the undo of a hard delete, the newest     *)
(* first, puts the image and the label file back at their original paths   *)
(* with their original content.                                            *)

C8_Staged(f, a) ==
    /\ exists(f, a.renamed_path)
    /\ a.renamed_path.dir = TempDir
    /\ f[a.renamed_path] = ImageContent(a.original_path)
    /\ a.renamed_json_path # NoPath =>
          /\ exists(f, a.renamed_json_path)
          /\ a.renamed_json_path.dir = TempDir
          /\ f[a.renamed_json_path].of = a.original_json_path

C8_Restored(f, a) ==
    /\ exists(f, a.original_path)
    /\ f[a.original_path] = ImageContent(a.original_path)
    /\ a.original_json_path # NoPath =>
          /\ exists(f, a.original_json_path)
          /\ f[a.original_json_path].of = a.original_json_path

C8_HardDeletesRoundTrip ==
    [][/\ \A i \in Events(calls', "register") :
             IsHardDelete(calls'[i].action) =>
                \A k \in 1..Len(file_stack') :
                    IsHardDelete(file_stack'[k]) => C8_Staged(fs', file_stack'[k])
       /\ \A i \in Events(calls', "undo") :
             IsHardDelete(calls'[i].action) => C8_Restored(fs', calls'[i].action)]_vars

----------------------------------------------------------------------------
(* C9: the annotation handlers (a button press, which drops an unlabeled   *)
(* last box, a button release, a label key, a right click, and Backspace   *)
(* while the annotation stack is not empty) register on and pop from the   *)
(* annotation stack only: they leave the file undo stack, the image queue, *)
(* the files on disk and the pending deletions as they are.                *)

C9_AnnotationStep ==
    \/ ButtonPress
    \/ ButtonRelease
    \/ LabelKey
    \/ RightClick
    \/ Backspace /\ bbox_stack # << >>

C9_OnAnnotationStackOnly ==
    \A i \in Events(calls', "register") \cup Events(calls', "undo")
                \cup Events(calls', "nothing_to_undo") :
        calls'[i].mgr = "bbox"

C9_FileSideUntouched ==
    /\ C9_OnAnnotationStackOnly
    /\ file_stack' = file_stack
    /\ image_paths' = image_paths
    /\ fs' = fs
    /\ files_to_delete' = files_to_delete

\* every step leaves the file side alone or is no annotation step
C9_SeparateStacks == [][C9_FileSideUntouched \/ ~C9_AnnotationStep]_vars

\* an annotation action has just been undone and another is still on the
\* annotation stack, while the file stack holds an action
C9_Witness ==
    /\ EventsOf(calls, "undo", "bbox") # {}
    /\ bbox_stack # << >>
    /\ file_stack # << >>

----------------------------------------------------------------------------
(* C10: a step that finalizes an action adds the action's renamed image    *)
(* path, and its renamed label path when it has one, to the pending        *)
(* deletions exactly when the action is a hard DeleteFileAction; the       *)
(* finalize of a soft delete, and of any other action, adds nothing.       *)

C10_Scheduled(a) ==
    IF IsHardDelete(a)
    THEN {a.renamed_path}
             \cup (IF a.renamed_json_path # NoPath THEN {a.renamed_json_path}
                   ELSE {})
    ELSE {}

C10_FinalizeSchedulesHardOnly ==
    [][\A i \in Events(calls', "finalize") :
          /\ files_to_delete' = files_to_delete \cup C10_Scheduled(calls'[i].action)
          /\ \A k \in Events(calls', "pending_add") :
                calls'[k].path \in C10_Scheduled(calls'[i].action)]_vars

\* a hard delete with a label file has just been finalized
C10_Witness ==
    \E i \in Events(calls, "finalize") :
        /\ IsHardDelete(calls[i].action)
        /\ calls[i].action.renamed_json_path # NoPath
        /\ calls[i].action.renamed_json_path \in files_to_delete

----------------------------------------------------------------------------
(* C11: a step that runs PendingDeletions.clear raises nothing, leaves the *)
(* pending set empty, leaves on disk no pending path and nothing in the    *)
(* temporary directory, and touches no other file; the clear of __del__    *)
(* after the clear of on_closing changes neither the disk nor the set.     *)

C11_Cleared ==
    /\ ~Raised(calls')
    /\ files_to_delete' = {}
    /\ DOMAIN fs' = {q \in DOMAIN fs : q \notin files_to_delete /\ q.dir # TempDir}
    /\ \A q \in DOMAIN fs' : fs'[q] = fs[q]
    /\ phase = "destroyed" => fs' = fs /\ files_to_delete' = files_to_delete

C11_ClearIsIdempotent == [][Events(calls', "pending_clear") # {} => C11_Cleared]_vars

\* a clear has just run on a pending set that was not empty, while a hard
\* delete was still staged
C11_Witness ==
    /\ \E i \in Events(calls, "pending_clear") : calls[i].paths # {}
    /\ \E k \in 1..Len(file_stack) : IsHardDelete(file_stack[k])

----------------------------------------------------------------------------
(* C12: a save-and-advance that raises nothing takes the current image off *)
(* the queue and writes <stem>.json beside the saved image (the image      *)
(* itself, or its copy in the fixup output directory).  The file maps each *)
(* label some box carries to the coordinates of the boxes with that label, *)
(* in box-list order; unlabeled boxes are left out, and the map is empty   *)
(* when no box is labeled.                                                 *)

C12_JsonPath ==
    [dir |-> IF output_dir = NoDir THEN CurrentImage.dir ELSE output_dir,
     pre |-> CurrentImage.pre, stem |-> CurrentImage.stem,
     sfx |-> IF output_dir = NoDir THEN CurrentImage.sfx ELSE FALSE,
     ext |-> "json"]

C12_Labels == {boxobj[bboxes[i]].label : i \in 1..Len(bboxes)} \ {NoLabel}

\* the coordinates of the boxes labeled l, in box-list order
C12_BoxesLabeled(l) ==
    LET idx == {i \in 1..Len(bboxes) : boxobj[bboxes[i]].label = l}
    IN [k \in 1..Cardinality(idx) |->
           boxobj[bboxes[CHOOSE i \in idx :
                            Cardinality({j \in idx : j < i}) = k - 1]].coords]

C12_Maps(data) ==
    /\ Len(data) = Cardinality(C12_Labels)
    /\ {data[k] : k \in 1..Len(data)}
           = {<< l, C12_BoxesLabeled(l) >> : l \in C12_Labels}

C12_Saved ==
    /\ image_paths' = list_without(image_paths, current_index)
    /\ exists(fs', C12_JsonPath)
    /\ fs'[C12_JsonPath].kind = "json"
    /\ C12_Maps(fs'[C12_JsonPath].data)

----------------------------------------------------------------------------
(* C13: in the default mode (no fixup output directory) a save-and-advance *)
(* writes <stem>.txt next to the image, with one line for each labeled     *)
(* box.                                                                    *)

C13_TxtPath == [CurrentImage EXCEPT !.ext = "txt"]

C13_LabeledBoxes == {i \in 1..Len(bboxes) : boxobj[bboxes[i]].label # NoLabel}

C13_SaveWritesYolo ==
    [][Space /\ ~Raised(calls') /\ output_dir = NoDir =>
          /\ exists(fs', C13_TxtPath)
          /\ fs'[C13_TxtPath].kind = "txt"
          /\ Len(fs'[C13_TxtPath].data) = Cardinality(C13_LabeledBoxes)]_vars

----------------------------------------------------------------------------
(* C14: a button press while the last box of the list is unlabeled removes *)
(* that box from the list, whatever the annotation stack holds.            *)

C14_LastUnlabeled == bboxes # << >> /\ boxobj[Last(bboxes)].label = NoLabel

C14_PressDiscardsUnlabeled ==
    [][ButtonPress /\ C14_LastUnlabeled =>
          \A i \in 1..Len(bboxes') : bboxes'[i] # Last(bboxes)]_vars

----------------------------------------------------------------------------
(* C15: a button press while the last box of the list is labeled changes   *)
(* neither the box list, nor any box, nor the annotation undo stack.       *)

C15_LastLabeled == bboxes # << >> /\ boxobj[Last(bboxes)].label # NoLabel

C15_PressKeepsLabeled ==
    [][ButtonPress /\ C15_LastLabeled =>
          /\ bboxes' = bboxes
          /\ boxobj' = boxobj
          /\ bbox_stack' = bbox_stack
          /\ is_drawing']_vars

\* the button is down over a list whose last box is labeled, with an
\* action on the annotation stack
C15_Witness ==
    /\ is_drawing
    /\ C15_LastLabeled
    /\ bbox_stack # << >>

----------------------------------------------------------------------------
(* C16: a right click while no box is being drawn and the list holds a box *)
(* removes one box: the selected one when a box is selected, otherwise the *)
(* last one.                                                               *)

C16_OneRemoved ==
    IF selected_bbox_index # NoneIndex
    THEN /\ selected_bbox_index < Len(bboxes)
         /\ bboxes' = list_without(bboxes, selected_bbox_index)
    ELSE bboxes' = Front(bboxes)

C16_RightClickRemovesBox ==
    [][RightClick /\ ~is_drawing /\ bboxes # << >> => C16_OneRemoved]_vars

----------------------------------------------------------------------------
(* C17: navigate(delta) on a non-empty queue sets current_index to         *)
(* (current_index + delta) modulo the queue length, so it wraps at both    *)
(* ends, and changes neither image_paths nor the file undo stack.          *)

C17_Navigated(delta) ==
    /\ current_index' = (current_index + delta) % Len(image_paths)
    /\ current_index' \in 0..(Len(image_paths) - 1)
    /\ current_index + delta = Len(image_paths) => current_index' = 0
    /\ current_index + delta = -1 => current_index' = Len(image_paths) - 1
    /\ image_paths' = image_paths
    /\ file_stack' = file_stack

C17_NavigateWraps ==
    [][\A delta \in {-1, 1} :
          phase = "running" /\ image_paths # << >> /\ Commit(navigate(S, delta))
              => C17_Navigated(delta)]_vars

\* navigate(1) has just wrapped from the last image to the first, with an
\* action on the file undo stack
C17_Witness ==
    /\ \E i \in Events(calls, "navigate") :
          calls[i].delta = 1 /\ calls[i].from = Len(image_paths) - 1
    /\ current_index = 0
    /\ Len(image_paths) > 1
    /\ file_stack # << >>

----------------------------------------------------------------------------
(* main() before the GUI: _find_sources over the input directories.  A     *)
(* directory entry is its directory (the path components below the common  *)
(* parent), the parts of its name (hidden: the name starts with ".", stem, *)
(* ext: the text after the last dot, "" when the name has no dot) and      *)
(* whether it is a directory.                                              *)

Entry(dir, hidden, stem, ext, isdir) ==
    [dir |-> dir, hidden |-> hidden, stem |-> stem, ext |-> ext, isdir |-> isdir]

\* str(filename)
PathOf(e) == [dir |-> e.dir, hidden |-> e.hidden, stem |-> e.stem, ext |-> e.ext]

\* str.lower() on the extensions of the model
lower(ext) ==
    CASE ext = "JPG" -> "jpg"
      [] ext = "Jpeg" -> "jpeg"
      [] OTHER -> ext

\* base_path.rglob("*.*"): every entry below base_path whose name has a dot
rglob(t, base_path) ==
    {e \in t : e.dir[1] = base_path /\ (e.ext # "" \/ e.hidden)}

\* (parent_dir / f"{base_filename}.json").exists()
has_label(t, e) ==
    \E l \in t : l.dir = e.dir /\ ~l.hidden /\ l.stem = e.stem /\ l.ext = "json"

keep_file(t, e, edit, process_all) ==
    IF e.isdir THEN FALSE
    ELSE IF e.hidden THEN FALSE
    ELSE IF lower(e.ext) \notin {"jpg", "jpeg"} THEN FALSE
    ELSE IF process_all THEN TRUE
    ELSE IF edit THEN has_label(t, e)
    ELSE ~has_label(t, e)

find_sources(t, input_dirs, edit, process_all) ==
    LET all_files == UNION {rglob(t, input_dirs[i]) : i \in 1..Len(input_dirs)}
    IN {PathOf(e) : e \in {f \in all_files : keep_file(t, f, edit, process_all)}}

\* the entries a tree of the model is made of
TreeEntries ==
    { Entry(<< "input1" >>, FALSE, "image1", "jpg", FALSE),
      Entry(<< "input1" >>, FALSE, "image1", "json", FALSE),
      Entry(<< "input1" >>, FALSE, "image1", "txt", FALSE),
      Entry(<< "input1", "sub" >>, FALSE, "image2", "jpeg", FALSE),
      Entry(<< "input1" >>, TRUE, "image6", "jpg", FALSE),
      Entry(<< "input1" >>, FALSE, "image5", "png", FALSE),
      Entry(<< "input1" >>, FALSE, "an_actual_dir", "jpg", TRUE),
      Entry(<< "input2" >>, FALSE, "image3", "JPG", FALSE),
      Entry(<< "input2" >>, FALSE, "image3", "json", FALSE),
      Entry(<< "output" >>, FALSE, "image4", "jpg", FALSE) }

\* the command lines of the model: the dirs and the flags _find_sources gets
CommandLines ==
    [dirs : {<< "input1" >>, << "input1", "input2" >>},
     edit : BOOLEAN, process_all : BOOLEAN]

\* the GUI is not running
NoGui ==
    /\ fs = << >>
    /\ really_delete = FALSE
    /\ output_dir = NoDir
    /\ copy = FALSE
    /\ image_paths = << >>
    /\ current_index = 0
    /\ current_path = NoPath
    /\ bboxes = << >>
    /\ boxobj = EmptyHeap
    /\ selected_bbox_index = NoneIndex
    /\ is_drawing = FALSE
    /\ bbox_stack = << >>
    /\ file_stack = << >>
    /\ files_to_delete = {}
    /\ phase = "not started"
    /\ calls = << >>
    /\ found = 0
    /\ evicted = {}

InitMain ==
    /\ tree \in SUBSET TreeEntries
    /\ args \in CommandLines
    /\ sources = {}
    /\ pc = "start"
    /\ returned = NoneIndex
    /\ before = {}
    /\ cli = NoCli
    /\ NoGui

\* image_paths = _find_sources(args.dirs, edit=..., process_all=...)
FindSources ==
    /\ pc = "start"
    /\ sources' = find_sources(tree, args.dirs, args.edit, args.process_all)
    /\ pc' = "searched"
    /\ UNCHANGED << tree, args, returned, before, cli >>
    /\ UNCHANGED gui_vars

\* if not image_paths: return 0
NoImages ==
    /\ pc = "searched"
    /\ sources = {}
    /\ pc' = "returned"
    /\ UNCHANGED << tree, args, sources, returned, before, cli >>
    /\ UNCHANGED gui_vars

\* _run_gui(image_paths, ...)
RunGui ==
    /\ pc = "searched"
    /\ sources # {}
    /\ pc' = "gui"
    /\ found' = Cardinality(sources)
    /\ UNCHANGED << tree, args, sources, returned, before, cli >>
    /\ UNCHANGED << fs, really_delete, output_dir, copy, image_paths,
                    current_index, current_path, bboxes, boxobj,
                    selected_bbox_index, is_drawing, bbox_stack, file_stack,
                    files_to_delete, phase, calls, evicted >>

NextMain ==
    \/ FindSources
    \/ NoImages
    \/ RunGui

SpecMain == InitMain /\ [][NextMain]_vars

----------------------------------------------------------------------------
(* Helpers of the claims about _find_sources *)

Searched == pc # "start"

DefaultMode == ~args.edit /\ ~args.process_all

InputDirs == {args.dirs[i] : i \in 1..Len(args.dirs)}

\* a regular file below an input directory, not hidden, named *.jpg or
\* *.jpeg in any case
IsImage(e) ==
    /\ e \in tree
    /\ e.dir[1] \in InputDirs
    /\ ~e.isdir
    /\ ~e.hidden
    /\ e.ext \in {"jpg", "JPG", "jpeg", "Jpeg"}

\* a label file with the stem of e lies in the directory of e
IsLabeled(e) ==
    \E l \in tree :
        /\ l.dir = e.dir
        /\ ~l.isdir
        /\ ~l.hidden
        /\ l.stem = e.stem
        /\ l.ext \in {"json", "txt"}

----------------------------------------------------------------------------
(* C18: whatever the mode, _find_sources returns only regular files below  *)
(* an input directory that are not hidden and are named *.jpg or *.jpeg in *)
(* any case; in the default mode it returns exactly those of them that     *)
(* have no label.                                                          *)

C18_ExactlyTheImages ==
    Searched =>
        /\ \A p \in sources : \E e \in tree : IsImage(e) /\ PathOf(e) = p
        /\ DefaultMode =>
              sources = {PathOf(e) : e \in {f \in tree : IsImage(f) /\ ~IsLabeled(f)}}

----------------------------------------------------------------------------
(* C19: in the default mode _find_sources returns no image that has a      *)
(* label file (.txt or .json) with its stem in its directory, and returns  *)
(* every image that has none.                                              *)

C19_SkipsLabeled ==
    Searched /\ DefaultMode =>
        \A e \in tree :
            IsImage(e) => (PathOf(e) \in sources <=> ~IsLabeled(e))

----------------------------------------------------------------------------
(* C20: in fixup mode with copy, no step moves, deletes or changes an      *)
(* original file: every image main() found, and its label file, that is on *)
(* disk before a step is on disk after it with the same content.           *)

C20_Originals == sources \cup {with_suffix_json(p) : p \in sources}

C20_CopyKeepsOriginals ==
    [][output_dir # NoDir /\ copy =>
          \A p \in C20_Originals :
              exists(fs, p) => exists(fs', p) /\ fs'[p] = fs[p]]_vars

----------------------------------------------------------------------------
(* cleanup.py: cleanup_images over a directory tree.  A file of the tree   *)
(* is a directory entry together with its bytes (data); two files are      *)
(* byte-identical when their data are equal.                               *)

File(dir, stem, ext, data) ==
    [dir |-> dir, hidden |-> FALSE, stem |-> stem, ext |-> ext,
     isdir |-> FALSE, data |-> data]

SUPPORTED_FORMATS == {"jpg", "jpeg"}

\* filename.is_relative_to(base): base is a leading part of the directory
is_relative_to(dir, base) ==
    Len(base) <= Len(dir) /\ SubSeq(dir, 1, Len(base)) = base

\* Path.is_file
is_file(t, p) == \E e \in t : PathOf(e) = p /\ ~e.isdir

\* find_images(input_dirs) with ignore_dirs = None and the default extensions
find_images(t, input_dirs) ==
    LET all_files ==
            UNION {{e \in t : is_relative_to(e.dir, input_dirs[i])
                                /\ (e.ext # "" \/ e.hidden)} :
                   i \in 1..Len(input_dirs)}
    IN {PathOf(e) : e \in {f \in all_files :
                              ~f.isdir /\ lower(f.ext) \in SUPPORTED_FORMATS}}

\* the paths of the model in the order of sorted(): paths compare part by
\* part, "in" < "ref" and "a.jpg" < "b.jpeg" < "b.jpg" < "gold"
PathOrder ==
    << [dir |-> << "in" >>, hidden |-> FALSE, stem |-> "a", ext |-> "jpg"],
       [dir |-> << "in" >>, hidden |-> FALSE, stem |-> "b", ext |-> "jpeg"],
       [dir |-> << "in" >>, hidden |-> FALSE, stem |-> "b", ext |-> "jpg"],
       [dir |-> << "in", "gold" >>, hidden |-> FALSE, stem |-> "g", ext |-> "jpg"],
       [dir |-> << "ref" >>, hidden |-> FALSE, stem |-> "r", ext |-> "jpg"] >>

\* sorted(images)
sorted(images) == SelectSeq(PathOrder, LAMBDA p : p \in images)

NoKey == "None"

\* _calculate_key: (st_size, sha256) of the bytes, None when the file is gone
calculate_key(t, image_path) ==
    IF \E e \in t : PathOf(e) = image_path
    THEN (CHOOSE e \in t : PathOf(e) = image_path).data
    ELSE NoKey

\* Path.unlink
unlink(t, p) == {e \in t : PathOf(e) # p}

\* one pass of "for image_path in sorted(images)"; st holds the tree, the
\* keys of hashes (its values are only printed) and duplicates_found
cleanup_visit(st, image_path, dry_run) ==
    LET metadata_file == with_suffix_json(image_path)
        key == calculate_key(st.tree, image_path)
    IN IF ~is_file(st.tree, metadata_file) THEN st
       ELSE IF key = NoKey THEN st
       ELSE IF key \in st.hashes
       THEN [st EXCEPT !.tree = IF dry_run THEN @
                                ELSE unlink(unlink(@, image_path), metadata_file),
                       !.duplicates_found = @ + 1]
       ELSE [st EXCEPT !.hashes = @ \cup {key}]

RECURSIVE cleanup_loop(_, _, _)
cleanup_loop(st, images, dry_run) ==
    IF images = << >> THEN st
    ELSE cleanup_loop(cleanup_visit(st, Head(images), dry_run), Tail(images), dry_run)

\* cleanup_images(input_dirs, dry_run=..., golden_dirs=...): the tree it
\* leaves and the number it returns
cleanup_images(t, input_dirs, dry_run, golden_dirs) ==
    LET golden == IF golden_dirs # << >>
                  THEN {calculate_key(t, p) : p \in find_images(t, golden_dirs)}
                  ELSE {}
        st == cleanup_loop([tree |-> t, hashes |-> golden, duplicates_found |-> 0],
                           sorted(find_images(t, input_dirs)), dry_run)
    IN [tree |-> st.tree, ret |-> st.duplicates_found]

\* the bytes an image of the model has: absent, or one of two pictures
ImageData == {"absent", "red10", "red5"}

\* the trees of the model: five images, each absent or one of two pictures,
\* and the metadata files a.json, b.json (shared by b.jpeg and b.jpg),
\* g.json and r.json, each there or not
CleanupTrees ==
    { {File(PathOrder[i].dir, PathOrder[i].stem, PathOrder[i].ext, d[i]) :
          i \in {j \in 1..Len(PathOrder) : d[j] # "absent"}}
      \cup {File(p.dir, p.stem, "json", "{}") : p \in m} :
        d \in [1..Len(PathOrder) -> ImageData],
        m \in SUBSET {PathOrder[i] : i \in {1, 2, 4, 5}} }

\* the calls of the model
CleanupCalls ==
    [dirs : {<< << "in" >> >>, << << "in" >>, << "ref" >> >>},
     dry_run : BOOLEAN,
     golden_dirs : {<< >>, << << "ref" >> >>, << << "in", "gold" >> >>,
                    << << "in" >> >>}]

InitCleanup ==
    /\ tree \in CleanupTrees
    /\ args \in CleanupCalls
    /\ sources = {}
    /\ pc = "start"
    /\ returned = NoneIndex
    /\ before = {}
    /\ cli = NoCli
    /\ NoGui

\* duplicates = cleanup_images(args.dirs, dry_run=..., golden_dirs=...)
CleanupImages ==
    /\ pc = "start"
    /\ LET r == cleanup_images(tree, args.dirs, args.dry_run, args.golden_dirs)
       IN /\ tree' = r.tree
          /\ returned' = r.ret
    /\ pc' = "returned"
    /\ UNCHANGED << args, sources, before, cli >>
    /\ UNCHANGED gui_vars

NextCleanup == CleanupImages

SpecCleanup == InitCleanup /\ [][NextCleanup]_vars

----------------------------------------------------------------------------
(* Helpers of the claims about cleanup_images *)

\* the step that runs cleanup_images for real
CleanupRun == pc = "start" /\ pc' = "returned" /\ ~args.dry_run

\* the images of the input directories that have a metadata file
WithMetadata(t, dirs) ==
    {p \in find_images(t, dirs) : is_file(t, with_suffix_json(p))}

\* the images of ps that are byte-identical to p
Identical(t, ps, p) == {q \in ps : calculate_key(t, q) = calculate_key(t, p)}

\* the position of p in sorted path order
Position(p) == CHOOSE i \in 1..Len(PathOrder) : PathOrder[i] = p

\* p is the first of ps in sorted path order
IsFirst(ps, p) == \A q \in ps : Position(p) <= Position(q)

\* the images that are in t and not in u
ImagesDeleted(t, u) ==
    {p \in Range(PathOrder) : is_file(t, p) /\ ~is_file(u, p)}

(* C21: a run of cleanup_images without dry_run (and without golden        *)
(* directories) keeps, of every group of byte-identical images that have a *)
(* .json metadata file, exactly the first in sorted path order, deletes    *)
(* every other one with its metadata file, deletes no other image, and     *)
(* returns the number of images it deleted.                                *)
C21_Duplicates ==
    {p \in WithMetadata(tree, args.dirs) :
        ~IsFirst(Identical(tree, WithMetadata(tree, args.dirs), p), p)}

C21_DeletesAllButFirst ==
    [][CleanupRun /\ args.golden_dirs = << >> =>
          /\ ImagesDeleted(tree, tree') = C21_Duplicates
          /\ \A p \in C21_Duplicates : ~is_file(tree', with_suffix_json(p))
          /\ returned' = Cardinality(ImagesDeleted(tree, tree'))]_vars

(* C22: a run of cleanup_images with dry_run deletes no file, and returns  *)
(* the number that a run without dry_run on the same directory contents    *)
(* returns.                                                                *)
C22_DryRun == pc = "start" /\ pc' = "returned" /\ args.dry_run

C22_DryRunCountsTheSame ==
    [][C22_DryRun =>
          /\ tree' = tree
          /\ returned' = cleanup_images(tree, args.dirs, FALSE, args.golden_dirs).ret]_vars

\* the files of t below one of the golden directories
InGolden(t, golden_dirs) ==
    {e \in t : \E i \in 1..Len(golden_dirs) : is_relative_to(e.dir, golden_dirs[i])}

(* C23: a run of cleanup_images deletes no file that lies in a golden      *)
(* directory, whatever the golden and input directories are (a golden      *)
(* directory may be an input directory or lie inside one).                 *)
C23_GoldenFilesStay ==
    [][CleanupRun => InGolden(tree, args.golden_dirs) \subseteq tree']_vars

----------------------------------------------------------------------------
(* renamer.py: rename_files and undo_rename over one directory.  A file    *)
(* name is its stem, cut at every "--" into segs, and its extension: the   *)
(* name "a--b.jpg" is segs << "a", "b" >> and ext "jpg".  An image carries *)
(* its EXIF timestamp, a label file its lines or its JSON dictionary.      *)

RFile(dir, segs, ext, data) ==
    [dir |-> dir, segs |-> segs, ext |-> ext, data |-> data]

input_path == << "input" >>

\* input_path / "empty"
empty_dir == << "input", "empty" >>

NoTimestamp == "None"

\* _is_image_file
is_image_file(e) == lower(e.ext) \in {"jpg", "jpeg"}

\* input_path.glob("*.*"), and with min_segs = 2 input_path.glob("*--*.*")
glob(t, min_segs) ==
    {e \in t : e.dir = input_path /\ e.ext # "" /\ Len(e.segs) >= min_segs}

\* the entry of input_path named f"{stem}{ext}", for ext in (".txt", ".json")
label_files(t, segs) ==
    LET at(ext) == {l \in t : l.dir = input_path /\ l.segs = segs /\ l.ext = ext}
    IN IF at("txt") # {} THEN at("txt") ELSE at("json")

\* os.rename: a file that has the new name is replaced
os_rename(t, e, dir, segs) ==
    {f \in t : f # e /\ ~(f.dir = dir /\ f.segs = segs /\ f.ext = e.ext)}
        \cup {[e EXCEPT !.dir = dir, !.segs = segs]}

\* the class names in sorted order
ClassOrder == << "cat", "dog" >>

\* class_map
class_map == [k \in {"0", "1"} |-> IF k = "0" THEN "cat" ELSE "dog"]

\* dict(enumerate(sorted(class_map.values()))).get(class_id)
id_to_class(class_id) ==
    IF class_id + 1 \in 1..Len(ClassOrder) THEN ClassOrder[class_id + 1] ELSE ""

\* the Counter that _get_class_counts fills: the keys it holds and their counts
class_counter(label) ==
    IF label.ext = "json"
    THEN [keys |-> {label.data[i][1] : i \in 1..Len(label.data)},
          count |-> [c \in Range(ClassOrder) |->
                        IF \E i \in 1..Len(label.data) : label.data[i][1] = c
                        THEN (CHOOSE pair \in Range(label.data) : pair[1] = c)[2]
                        ELSE 0]]
    ELSE [keys |-> {id_to_class(label.data[i]) : i \in 1..Len(label.data)} \ {""},
          count |-> [c \in Range(ClassOrder) |->
                        Cardinality({i \in 1..Len(label.data) :
                                        id_to_class(label.data[i]) = c})]]

\* "_".join(f"{count}{name}" for name, count in sorted(counts.items()))
RECURSIVE join_counts(_, _)
join_counts(counter, names) ==
    IF names = << >> THEN ""
    ELSE LET rest == join_counts(counter, Tail(names))
             this == ToString(counter.count[Head(names)]) \o Head(names)
         IN IF Head(names) \notin counter.keys THEN rest
            ELSE IF rest = "" THEN this
            ELSE this \o "_" \o rest

\* _get_class_counts: "" stands for None
get_class_counts(label) == join_counts(class_counter(label), ClassOrder)

\* one pass of the loop of undo_rename
undo_visit(t, e, dry_run) ==
    LET labels == label_files(t, e.segs)
        label == CHOOSE l \in labels : TRUE
    IN IF Len(e.segs) - 1 # 1 THEN t
       ELSE IF ~is_image_file(e) THEN t
       ELSE IF labels = {} THEN t
       ELSE IF dry_run THEN t
       ELSE os_rename(os_rename(t, e, input_path, Tail(e.segs)),
                      label, input_path, Tail(e.segs))

\* one pass of the loop of rename_files; st is the tree and the exception
\* that has left the loop ("" when none has)
rename_visit(st, e, dry_run, remove_empty, move_empty) ==
    LET t == st.tree
        labels == label_files(t, e.segs)
        label == CHOOSE l \in labels : TRUE
        class_counts == get_class_counts(label)
        timestamp == e.data
        prefix == timestamp \o "_" \o
                      (IF class_counts = "" THEN "unlabeled" ELSE class_counts)
        new_segs == << prefix >> \o e.segs
    IN IF st.exc # "" THEN st
       ELSE IF ~is_image_file(e) THEN st
       ELSE IF labels = {} THEN [st EXCEPT !.exc = "AttributeError"]
       ELSE IF class_counts = "" /\ remove_empty
       THEN [st EXCEPT !.tree = IF dry_run THEN t ELSE t \ {e, label}]
       ELSE IF class_counts = "" /\ move_empty
       THEN [st EXCEPT !.tree = IF dry_run THEN t
                                ELSE os_rename(os_rename(t, e, empty_dir, e.segs),
                                               label, empty_dir, label.segs)]
       ELSE IF timestamp = NoTimestamp THEN st
       ELSE [st EXCEPT !.tree = IF dry_run THEN t
                                ELSE os_rename(os_rename(t, e, input_path, new_segs),
                                               label, input_path, new_segs)]

RECURSIVE rename_loop(_, _, _, _, _)
rename_loop(st, order, dry_run, remove_empty, move_empty) ==
    IF order = << >> THEN st
    ELSE rename_loop(rename_visit(st, Head(order), dry_run, remove_empty, move_empty),
                     Tail(order), dry_run, remove_empty, move_empty)

RECURSIVE undo_loop(_, _, _)
undo_loop(t, order, dry_run) ==
    IF order = << >> THEN t
    ELSE undo_loop(undo_visit(t, Head(order), dry_run), Tail(order), dry_run)

\* the sequences that hold every element of es once
RECURSIVE Permutations_of(_)
Permutations_of(es) ==
    IF es = {} THEN {<< >>}
    ELSE UNION {{<< e >> \o o : o \in Permutations_of(es \ {e})} : e \in es}

\* the orders in which a glob yields the entries es: the image files in any
\* order; the other entries, which both loops pass over, come first
Orders(es) ==
    LET others == {e \in es : ~is_image_file(e)}
        first == CHOOSE o \in Permutations_of(others) : TRUE
    IN {first \o o : o \in Permutations_of(es \ others)}

\* the files of the model: x.jpg and x.jpeg (one stem), a--b.jpg, y.JPG,
\* and the label files x.txt, x.json, a--b.txt and y.json
Timestamp == "2025-01-01 12:00:00"

RenameImages ==
    { RFile(input_path, << "x" >>, "jpg", Timestamp),
      RFile(input_path, << "x" >>, "jpg", NoTimestamp),
      RFile(input_path, << "x" >>, "jpeg", Timestamp),
      RFile(input_path, << "a", "b" >>, "jpg", Timestamp),
      RFile(input_path, << "y" >>, "JPG", Timestamp) }

RenameLabels ==
    { RFile(input_path, << "x" >>, "txt", << 0 >>),
      RFile(input_path, << "x" >>, "txt", << >>),
      RFile(input_path, << "x" >>, "json", << << "dog", 2 >> >>),
      RFile(input_path, << "a", "b" >>, "txt", << 1, 0, 1 >>),
      RFile(input_path, << "y" >>, "json", << >>) }

\* no two files of a tree have the same name
RenameTrees ==
    {t \in SUBSET (RenameImages \cup RenameLabels) :
        \A e, f \in t : e.segs = f.segs /\ e.ext = f.ext => e = f}

RenameCalls ==
    [dry_run : BOOLEAN, remove_empty : BOOLEAN, move_empty : BOOLEAN,
     undo_dry_run : BOOLEAN]

InitRename ==
    /\ tree \in RenameTrees
    /\ before = tree
    /\ cli = NoCli
    /\ args \in RenameCalls
    /\ sources = {}
    /\ pc = "start"
    /\ returned = NoneIndex
    /\ NoGui

\* rename_files(input_dir, class_map, dry_run=..., remove_empty=..., move_empty=...)
RenameFiles ==
    /\ pc = "start"
    /\ \E order \in Orders(glob(tree, 1)) :
          LET st == rename_loop([tree |-> tree, exc |-> ""], order,
                                args.dry_run, args.remove_empty, args.move_empty)
          IN /\ tree' = st.tree
             /\ pc' = IF st.exc = "" THEN "renamed" ELSE "raised"
    /\ UNCHANGED << args, sources, returned, before, cli >>
    /\ UNCHANGED gui_vars

\* undo_rename(input_dir, dry_run=...)
UndoRename ==
    /\ pc \in {"renamed", "raised"}
    /\ \E order \in Orders(glob(tree, 2)) :
          tree' = undo_loop(tree, order, args.undo_dry_run)
    /\ pc' = "undone"
    /\ UNCHANGED << args, sources, returned, before, cli >>
    /\ UNCHANGED gui_vars

NextRename ==
    \/ RenameFiles
    \/ UndoRename

SpecRename == InitRename /\ [][NextRename]_vars

----------------------------------------------------------------------------
(* C24: rename_files followed by undo_rename on the same directory (both   *)
(* without dry_run, rename_files with its default options) is a round      *)
(* trip: every jpg/jpeg image that had a label file and a timestamp, and   *)
(* its label file, are back under their original names, and no file named  *)
(* "<timestamp>_<counts>--<name>" remains.                                 *)
C24_Defaults ==
    ~args.dry_run /\ ~args.remove_empty /\ ~args.move_empty /\ ~args.undo_dry_run

\* the images rename_files renames, with their label files
C24_Renamed ==
    {e \in before : /\ is_image_file(e)
                    /\ label_files(before, e.segs) # {}
                    /\ e.data # NoTimestamp}

C24_RoundTrip ==
    pc = "undone" /\ C24_Defaults =>
        \A e \in C24_Renamed :
            /\ e \in tree
            /\ label_files(before, e.segs) \subseteq tree
            /\ ~\E f \in tree : Len(f.segs) = Len(e.segs) + 1 /\ Tail(f.segs) = e.segs

----------------------------------------------------------------------------
(* C25: when register_action evicts a hard delete from the file undo stack *)
(* its staged files are in the pending deletions after that step and the   *)
(* action is off the stack; an evicted hard delete is never on the stack   *)
(* again and no undo ever runs it; and once on_closing has run, no staged  *)
(* file of an evicted hard delete is on disk and no file anywhere holds    *)
(* the content of its image.                                               *)
C25_Staged(a) ==
    {a.renamed_path} \cup (IF a.renamed_json_path # NoPath
                           THEN {a.renamed_json_path} ELSE {})

C25_ScheduledAtEviction ==
    \A i \in Events(calls', "finalize") :
        IsHardDelete(calls'[i].action) =>
            /\ C25_Staged(calls'[i].action) \subseteq files_to_delete'
            /\ calls'[i].action \notin Range(file_stack')

C25_NeverUndone ==
    /\ \A a \in evicted : a \notin Range(file_stack)
    /\ \A i \in Events(calls, "undo") : calls[i].action \notin evicted

C25_RemovedOnClosing ==
    phase = "destroyed" =>
        \A a \in evicted :
            /\ \A p \in C25_Staged(a) : ~exists(fs, p)
            /\ ImageContent(a.original_path) \notin Contents(fs)

C25_EvictedIsRemoved ==
    /\ [][C25_ScheduledAtEviction]_vars
    /\ [](C25_NeverUndone /\ C25_RemovedOnClosing)

\* on_closing has just removed the staged file of an evicted hard delete
C25_Witness ==
    /\ phase = "destroyed"
    /\ \E a \in evicted, i \in Events(calls, "pending_clear") :
          a.renamed_path \in calls[i].paths

----------------------------------------------------------------------------
(* Annotating one displayed image: the session of one image without a     *)
(* label file and the events that act on its boxes, with room for one more *)
(* box than Spec has.                                                      *)

\* a box is drawn only while the list holds fewer boxes than this
MaxDrawn == 3

InitAnnotate == Init /\ found = 1 /\ bboxes = << >>

\* the button is released after a drag from the top left corner
DrawBox ==
    /\ phase = "running"
    /\ is_drawing
    /\ \E ex \in MouseX, ey \in MouseY :
          /\ zero_sized(drawn_bbox(0, 0, ex, ey)) \/ Len(bboxes) < MaxDrawn
          /\ Commit(on_button_release(S, 0, 0, ex, ey))

\* the key of the first class is pressed
LabelKeyA == phase = "running" /\ Commit(add_label(S, "a"))

NextAnnotate ==
    \/ RightClick
    \/ Backspace
    \/ F5F6
    \/ LabelKeyA
    \/ ButtonPress
    \/ DrawBox

SpecAnnotate == InitAnnotate /\ [][NextAnnotate]_vars

\* the state after the step, as a handler's working state
SNext ==
    [ fs |-> fs', really_delete |-> really_delete', output_dir |-> output_dir',
      copy |-> copy', image_paths |-> image_paths',
      current_index |-> current_index', current_path |-> current_path',
      bboxes |-> bboxes', boxobj |-> boxobj',
      selected_bbox_index |-> selected_bbox_index', is_drawing |-> is_drawing',
      bbox_stack |-> bbox_stack', file_stack |-> file_stack',
      files_to_delete |-> files_to_delete', phase |-> phase',
      calls |-> << >>, exc |-> "" ]

\* the box list of s: the dicts in order, each with coordinates and label
BoxList(s) == [i \in 1..Len(s.bboxes) |-> s.boxobj[s.bboxes[i]]]

----------------------------------------------------------------------------
(* C27: after a step in which skip or the Delete key (soft or hard) takes  *)
(* the current image out of the queue and leaves the queue non-empty,      *)
(* undoing the registered file action at once gives image_paths the order  *)
(* and current_index the value they had before the step, wherever the      *)
(* image was in the queue.                                                 *)
C27_Removed ==
    {i \in EventsOf(calls', "register", "file") :
        calls'[i].action.type \in {"SkipFileAction", "DeleteFileAction"}}

C27_UndoRestoresQueue ==
    [][phase' = "running" /\ ~Raised(calls') =>
          \A i \in C27_Removed :
              LET undone == UndoManager_undo(SNext, "file")
              IN /\ undone.image_paths = image_paths
                 /\ undone.current_index = current_index]_vars

----------------------------------------------------------------------------
(* C28: in fixup mode, after a step in which save-and-advance registers    *)
(* its SaveFileAction, undoing that action at once puts the files back as  *)
(* they were before the save: the image is at its source path with its     *)
(* content, and the annotation file the save wrote in the output directory *)
(* does not exist.                                                         *)
C28_Saved ==
    {i \in EventsOf(calls', "register", "file") :
        calls'[i].action.type = "SaveFileAction"}

C28_UndoRestoresFiles ==
    [][phase' = "running" /\ ~Raised(calls') =>
          \A i \in C28_Saved :
              LET undone == UndoManager_undo(SNext, "file")
                  a == calls'[i].action
              IN /\ exists(undone.fs, a.source_path)
                 /\ undone.fs[a.source_path] = fs[a.source_path]
                 /\ ~exists(undone.fs, with_suffix_json(a.dest_path))]_vars

----------------------------------------------------------------------------
(* C29: in fixup mode a save never replaces a file of the output           *)
(* directory: when save-and-advance registers its SaveFileAction, neither  *)
(* the destination of the image nor that of its annotation file existed    *)
(* before the step.                                                        *)
C29_SaveOverwritesNothing ==
    [][\A i \in EventsOf(calls', "register", "file") :
          calls'[i].action.type = "SaveFileAction" =>
              /\ ~exists(fs, calls'[i].action.dest_path)
              /\ ~exists(fs, with_suffix_json(calls'[i].action.dest_path))]_vars

----------------------------------------------------------------------------
(* C30: in every state reached by navigate, save, skip, Delete key and     *)
(* file undo, when image_paths is not empty current_index is at least 0    *)
(* and below len(image_paths), and current_path is the element of          *)
(* image_paths at current_index.                                           *)
C30_IndexInQueue ==
    image_paths # << >> =>
        /\ 0 <= current_index
        /\ current_index < Len(image_paths)
        /\ current_path = image_paths[current_index + 1]

----------------------------------------------------------------------------
(* C31: every step that changes or reloads the displayed image (navigate,  *)
(* save, skip, Delete key, undo of a file action, when the handler gets as *)
(* far as display_image) leaves the annotation undo stack empty, the       *)
(* selection None and the box list holding only the boxes of the label     *)
(* file of the image now displayed; so in every state each action on the   *)
(* annotation stack refers to a box object of the displayed image, and a   *)
(* step that undoes an annotation action displays no other image.          *)

\* the boxes _load_json_metadata reads from data, in order
RECURSIVE C31_Boxes(_)
C31_Boxes(data) ==
    IF data = << >> THEN << >>
    ELSE [i \in 1..Len(Head(data)[2]) |->
             [coords |-> Head(data)[2][i], label |-> Head(data)[1]]]
         \o C31_Boxes(Tail(data))

\* the box list a display of current_path' leaves
C31_Loaded ==
    IF ~Raised(calls') /\ exists(fs', with_suffix_json(current_path'))
    THEN C31_Boxes(fs'[with_suffix_json(current_path')].data)
    ELSE << >>

\* the handler of the step navigated, saved, skipped, deleted or undid a
\* file action
C31_ImageOperation ==
    \/ Events(calls', "navigate") # {}
    \/ Events(calls', "save_json") # {}
    \/ EventsOf(calls', "register", "file") # {}
    \/ EventsOf(calls', "undo", "file") # {}

C31_Reset ==
    /\ bbox_stack' = << >>
    /\ selected_bbox_index' = NoneIndex
    /\ BoxList(SNext) = IF phase' = "running" THEN C31_Loaded ELSE << >>

C31_StackOfThisImage ==
    \A i \in 1..Len(bbox_stack) : bbox_stack[i].bbox \in DOMAIN boxobj

C31_DisplayResets ==
    /\ [][/\ C31_ImageOperation /\ ~Raised(calls') =>
                Events(calls', "display_image") # {}
          /\ current_path' # current_path => Events(calls', "display_image") # {}
          /\ Events(calls', "display_image") # {} => C31_Reset
          /\ EventsOf(calls', "undo", "bbox") # {} =>
                /\ Events(calls', "display_image") = {}
                /\ current_path' = current_path]_vars
    /\ []C31_StackOfThisImage

\* an image with a label file has just been displayed in place of one whose
\* annotation stack held an action
C31_Witness ==
    /\ Events(calls, "display_image") # {}
    /\ \E i \in EventsOf(calls, "clear", "bbox") : calls[i].dropped > 0
    /\ bboxes # << >>
    /\ bbox_stack = << >>
    /\ phase = "running"

----------------------------------------------------------------------------
(* C32: a Backspace press outside a drag undoes one action when there is   *)
(* one: the newest action of the annotation stack when that stack is not   *)
(* empty, leaving the file stack alone, and otherwise the newest action of *)
(* the file stack.  No step undoes a file action while the annotation      *)
(* stack holds an action, and no step undoes more than one action.         *)

\* the one undo of the step is that of the newest action of manager mgr
C32_UndoesNewest(mgr) ==
    /\ Cardinality(Events(calls', "undo")) = 1
    /\ \A i \in Events(calls', "undo") :
          /\ calls'[i].mgr = mgr
          /\ calls'[i].action = Last(StackOf(mgr))
    /\ StackOf(mgr)' = Front(StackOf(mgr))

----------------------------------------------------------------------------
(* C33: is_drawing is False when the window opens, a button press sets it, *)
(* the button release clears it and no other handler changes it, so it is  *)
(* True exactly from a press to the following release; a Backspace or a    *)
(* right click that arrives while it is True leaves the box list (order,   *)
(* coordinates and labels) and both undo stacks as they were.              *)

\* handler result t leaves the box list and both undo stacks of S alone
C33_Unchanged(t) ==
    /\ BoxList(t) = BoxList(S)
    /\ t.bboxes = bboxes
    /\ t.bbox_stack = bbox_stack
    /\ t.file_stack = file_stack

\* what the handlers do to is_drawing, and during a drag, in this state
C33_Handlers ==
    phase = "running" =>
        /\ on_button_press(S).is_drawing
        /\ \A sx \in MouseX, sy \in MouseY, ex \in MouseX, ey \in MouseY :
              ~on_button_release(S, sx, sy, ex, ey).is_drawing
        /\ is_drawing =>
              /\ C33_Unchanged(handle_backspace(S))
              /\ C33_Unchanged(handle_right_click(S))

\* a step that changes is_drawing is a press or a release
C33_DrawingStep ==
    is_drawing' = is_drawing
        \/ (IF is_drawing' THEN ButtonPress ELSE ButtonRelease)

C33_DrawingBetweenPressAndRelease ==
    /\ ~is_drawing
    /\ [][C33_DrawingStep]_vars
    /\ []C33_Handlers

\* a drag has begun over an image with a box, with actions on both stacks
C33_Witness ==
    /\ is_drawing
    /\ phase = "running"
    /\ bboxes # << >>
    /\ bbox_stack # << >>
    /\ file_stack # << >>

----------------------------------------------------------------------------
(* C34: add_label(key) on a non-empty box list with a box selected gives   *)
(* the box at selected_bbox_index the label key_map[key], whatever label   *)
(* it had, and sets the selection to None; with no box selected it gives   *)
(* that label to the last box of the list whose label is None; in both     *)
(* cases no other box changes and exactly one AddLabelAction for that box  *)
(* with its previous label is registered.  With an empty list, or with no  *)
(* selection and no unlabeled box, no label changes and nothing is         *)
(* registered.                                                             *)

\* add_label(key) labeled the box at position k (1-based) of the list
C34_Labels(t, k, key) ==
    /\ t.exc = ""
    /\ t.bboxes = bboxes
    /\ BoxList(t) = [BoxList(S) EXCEPT ![k].label = key_map[key]]
    /\ Cardinality(Events(t.calls, "register")) = 1
    /\ \A i \in Events(t.calls, "register") :
          /\ t.calls[i].mgr = "bbox"
          /\ t.calls[i].action = AddLabelAction(bboxes[k], boxobj[bboxes[k]].label)

C34_Nothing(t) ==
    /\ t.exc = ""
    /\ BoxList(t) = BoxList(S)
    /\ Events(t.calls, "register") = {}
    /\ t.bbox_stack = bbox_stack

C34_AddLabel ==
    phase = "running" =>
        \A key \in Keys :
            LET t == add_label(S, key)
            IN IF bboxes = << >> THEN C34_Nothing(t)
               ELSE IF selected_bbox_index # NoneIndex
               THEN /\ selected_bbox_index < Len(bboxes)
                    /\ C34_Labels(t, selected_bbox_index + 1, key)
                    /\ t.selected_bbox_index = NoneIndex
               ELSE IF \A i \in 1..Len(bboxes) : boxobj[bboxes[i]].label # NoLabel
               THEN C34_Nothing(t)
               ELSE \E k \in 1..Len(bboxes) :
                       /\ boxobj[bboxes[k]].label = NoLabel
                       /\ \A j \in (k + 1)..Len(bboxes) :
                             boxobj[bboxes[j]].label # NoLabel
                       /\ C34_Labels(t, k, key)
                       /\ t.selected_bbox_index = NoneIndex

----------------------------------------------------------------------------
(* C35: while the window is open, UndoManager.undo on an empty stack       *)
(* raises nothing, calls the undo of no action and leaves the stacks, the  *)
(* box list, the selection, the image queue and the files on disk as they  *)
(* are, and so do Backspace and a right click that reach it; the Delete    *)
(* key on an empty image queue changes nothing either.                     *)

\* handler result t differs from the state at most in the calls it logged
C35_NoOp(t) ==
    /\ t.exc = ""
    /\ Events(t.calls, "undo") = {}
    /\ Events(t.calls, "register") = {}
    /\ [t EXCEPT !.calls = << >>] = S

C35_EmptyIsNoOp ==
    phase = "running" =>
        /\ \A mgr \in Managers :
              StackOf(mgr) = << >> => C35_NoOp(UndoManager_undo(S, mgr))
        /\ (bbox_stack = << >> /\ file_stack = << >>) => C35_NoOp(handle_backspace(S))
        /\ (bbox_stack = << >> /\ selected_bbox_index = NoneIndex) =>
              C35_NoOp(handle_right_click(S))
        /\ image_paths = << >> => C35_NoOp(handle_delete_key(S))

\* undo has just found nothing to undo, with both stacks and the image
\* queue empty
C35_Witness ==
    /\ phase = "running"
    /\ Events(calls, "nothing_to_undo") # {}
    /\ bbox_stack = << >>
    /\ file_stack = << >>
    /\ image_paths = << >>

----------------------------------------------------------------------------
(* C36: a run of cleanup_images without dry_run never removes the last     *)
(* copy of an image: for every image that was in an input or a golden      *)
(* directory before the run, an image file with the same bytes exists      *)
(* after the run, whatever the golden and input directories are.           *)

\* the image files of t below one of the directories dirs
C36_Scanned(t, dirs) == {e \in t : PathOf(e) \in find_images(t, dirs)}

C36_KeepsACopy ==
    [][CleanupRun =>
          \A e \in C36_Scanned(tree, args.dirs \o args.golden_dirs) :
              \E f \in tree' :
                  /\ lower(f.ext) \in SUPPORTED_FORMATS
                  /\ f.data = e.data]_vars

----------------------------------------------------------------------------
(* cleanup_cli.py: main() runs cleanup_images on the directories of the    *)
(* command line (it passes no golden directories), prints its report and   *)
(* returns the exit code.                                                  *)

\* len(x) of an int: Python raises TypeError, an int has no len()
len_of_int(x) == "TypeError"

\* main() after parse_args: the tree it leaves, deleted_files, and what it
\* printed (the summary line of cleanup_images, then its own report),
\* returned and raised
cleanup_cli_main(t, a) ==
    LET r == cleanup_images(t, a.dirs, a.dry_run, << >>)
        deleted_files == r.ret
        scan == << [text |-> "Scan complete.", n |-> r.ret] >>
    IN IF deleted_files # 0
       THEN [tree |-> r.tree, deleted_files |-> deleted_files,
             cli |-> [NoCli EXCEPT !.printed = scan,
                                   !.exc = len_of_int(deleted_files)]]
       ELSE [tree |-> r.tree, deleted_files |-> deleted_files,
             cli |-> [NoCli EXCEPT
                         !.printed = Append(scan, [text |-> "No duplicate files found.",
                                                   n |-> 0]),
                         !.ret = 0]]

InitCleanupCli == InitCleanup /\ args.golden_dirs = << >>

\* sys.exit(main())
CleanupCliMain ==
    /\ pc = "start"
    /\ LET r == cleanup_cli_main(tree, args)
       IN /\ tree' = r.tree
          /\ returned' = r.deleted_files
          /\ cli' = r.cli
    /\ pc' = "exited"
    /\ UNCHANGED << args, sources, before >>
    /\ UNCHANGED gui_vars

NextCleanupCli == CleanupCliMain

SpecCleanupCli == InitCleanupCli /\ [][NextCleanupCli]_vars

(* C37: main() of the cleanup command raises nothing, returns exit code 0  *)
(* and prints a report for every tree and command line: the number of      *)
(* duplicates when cleanup_images found one or more, and that none was     *)
(* found when it found none.                                               *)
C37_ReportsAndExitsZero ==
    [][pc' = "exited" =>
          /\ cli'.exc = ""
          /\ cli'.ret = 0
          /\ Len(cli'.printed) = 2
          /\ cli'.printed[2] =
                IF returned' = 0
                THEN [text |-> "No duplicate files found.", n |-> 0]
                ELSE [text |-> "duplicate files found.", n |-> returned']]_vars

----------------------------------------------------------------------------
(* C38: rename_files on a directory that holds an image without a label    *)
(* file (.txt or .json of the same stem) raises no error, leaves every     *)
(* such image as it is, and goes on with the other images: with the        *)
(* default options every image with a label file and a timestamp is        *)
(* renamed.                                                                *)

\* the images of the directory that have no label file
C38_Unlabeled ==
    {e \in tree : is_image_file(e) /\ label_files(tree, e.segs) = {}}

C38_SkipsUnlabeled ==
    [][(pc = "start" /\ pc' \in {"renamed", "raised"} /\ C38_Unlabeled # {}) =>
          /\ pc' = "renamed"
          /\ C38_Unlabeled \subseteq tree'
          /\ C24_Defaults => \A e \in C24_Renamed : e \notin tree']_vars

====
